---- MODULE Spec2Model ----
(***************************************************************************)
(* A model of mosaic.py (photomosaic renderer).                            *)
(*                                                                         *)
(* Pixel buffers are single-channel ('L' mode) images: a record            *)
(* [w, h, px] with px a function from the coordinates <<x, y>> to the      *)
(* channel value.  A tile is identified by its index in the list tiles     *)
(* (Python keeps the object; the index is its identity); None is 0.        *)
(*                                                                         *)
(* Pillow's interpolation filter is outside the repository.  resize is     *)
(* modelled as the copy of the box when the size does not change and as    *)
(* the rounded area mean of the box otherwise; this is exact for the       *)
(* solid-colour files main is run on here, and for the 1x1 reduction of    *)
(* avg_rgb it is the area mean the filter approximates.                    *)
(***************************************************************************)
EXTENDS Integers, Sequences, FiniteSets, TLC

VARIABLES pc, argv, size, scale, method, target, n_files, tiles, cached_avgs,
          grid, mosaic_tiles, output, fx, args, ret, avg_calls

vars == <<pc, argv, size, scale, method, target, n_files, tiles, cached_avgs,
          grid, mosaic_tiles, output, fx, args, ret, avg_calls>>

(***************************************************************************)
(* Bounds of the model.                                                    *)
(***************************************************************************)
\* largest side of a target image file read by main
MaxDim == 2
\* largest scale argument
MaxScale == 2
\* largest tile size argument
MaxSize == 3
\* largest channel value of a pixel
MaxPix == 1
\* largest number of files in the tiles directory / tiles in a collection
MaxTiles == 2
\* largest side of a buffer handed to get_target, process_tile and gridify
\* when they are exercised on their own
MaxSrc == 5
\* the tile size (width, height) of the cells and tiles find_best_match is
\* called on when it is exercised on its own; fixed, as tile_size is in a run
MatchTileSize == <<2, 1>>

None == 0
NoValue == [none |-> TRUE]

(***************************************************************************)
(* Pixel buffers and the Pillow primitives the program calls.              *)
(***************************************************************************)
Min(a, b) == IF a < b THEN a ELSE b

Coords(w, h) == (0 .. (w - 1)) \X (0 .. (h - 1))

Solid(w, h, c) == [w |-> w, h |-> h, px |-> [p \in Coords(w, h) |-> c]]

\* a buffer whose pixels are all different and non-zero: pixel <<x, y>> holds
\* its own position
Numbered(w, h) ==
    [w |-> w, h |-> h, px |-> [p \in Coords(w, h) |-> p[2] * w + p[1] + 1]]

Buffers(w, h) == { [w |-> w, h |-> h, px |-> f] : f \in [Coords(w, h) -> 0 .. MaxPix] }

\* Image.crop(box): the region [l, r) x [u, d); Pillow fills what lies
\* outside the image with 0
crop(img, box) ==
    LET l == box[1]
        u == box[2]
        bw == box[3] - box[1]
        bh == box[4] - box[2]
    IN  [w |-> bw, h |-> bh,
         px |-> [p \in Coords(bw, bh) |->
                   IF <<l + p[1], u + p[2]>> \in Coords(img.w, img.h)
                   THEN img.px[<<l + p[1], u + p[2]>>]
                   ELSE 0]]

\* np.asarray(image): the channel values, row by row
asarray(img) ==
    [k \in 1 .. (img.w * img.h) |-> img.px[<<(k - 1) % img.w, (k - 1) \div img.w>>]]

RECURSIVE SumSeq(_)
SumSeq(s) == IF s = <<>> THEN 0 ELSE s[1] + SumSeq(Tail(s))

\* the area mean of a buffer, rounded to the nearest channel value
Mean(img) == (2 * SumSeq(asarray(img)) + img.w * img.h) \div (2 * img.w * img.h)

\* Image.resize(size, ANTIALIAS, box=box)
resize(img, newsize, box) ==
    IF newsize = <<box[3] - box[1], box[4] - box[2]>>
    THEN crop(img, box)
    ELSE LET m == Mean(crop(img, box))
         IN  Solid(newsize[1], newsize[2], m)

FullBox(img) == <<0, 0, img.w, img.h>>

(***************************************************************************)
(* get_target, lines 26-34 (the file is opened by the caller's step).      *)
(***************************************************************************)
get_target(img, tile_size, sc) ==
    LET w == img.w * sc
        h == img.h * sc
        img_large == resize(img, <<w, h>>, FullBox(img))
        w_rem == (w % tile_size[1]) \div 2
        h_rem == (h % tile_size[1]) \div 2
    IN  IF w_rem # 0 \/ h_rem # 0
        THEN crop(img_large, <<w_rem, h_rem, w - w_rem, h - h_rem>>)
        ELSE img_large

(***************************************************************************)
(* process_tile                                                            *)
(***************************************************************************)
process_tile_box(tile) ==
    LET w == tile.w
        h == tile.h
        min_dim == Min(w, h)
        w_crop == (w - min_dim) \div 2
        h_crop == (h - min_dim) \div 2
    IN  <<w_crop, h_crop, w - w_crop, h - h_crop>>

process_tile(tile, tile_size) == resize(tile, tile_size, process_tile_box(tile))

(***************************************************************************)
(* avg_rgb, error                                                          *)
(***************************************************************************)
avg_rgb(image) == resize(image, <<1, 1>>, FullBox(image)).px[<<0, 0>>]

\* np.sum(np.subtract(x, y) ** 2) over two arrays of the same shape
error(x, y) == SumSeq([k \in 1 .. Len(x) |-> (x[k] - y[k]) * (x[k] - y[k])])

(***************************************************************************)
(* gridify                                                                 *)
(***************************************************************************)
\* gridify with the tile width used for the vertical extent as well
gridify_width_only(image, tile_size) ==
    LET w == tile_size[1]
        rows == image.h \div w
        cols == image.w \div w
    IN  [i \in 1 .. rows |->
          [j \in 1 .. cols |->
            crop(image, <<(j - 1) * w, (i - 1) * w, j * w, i * w>>)]]

gridify(image, tile_size) ==
    LET w == tile_size[1]
        h == tile_size[2]
        rows == image.h \div h
        cols == image.w \div w
    IN  [i \in 1 .. rows |->
          [j \in 1 .. cols |->
            crop(image, <<(j - 1) * w, (i - 1) * h, j * w, i * h>>)]]

(***************************************************************************)
(* find_best_match                                                         *)
(***************************************************************************)
\* float('inf')
Inf == -1

\* the comparison with <= in place of <
improves_or_ties(err, min_err) == min_err = Inf \/ err <= min_err

\* err < min_err
improves(err, min_err) == min_err = Inf \/ err < min_err

\* list.index with the last occurrence in place of the first
index_last(list, v) ==
    CHOOSE k \in 1 .. Len(list) :
        list[k] = v /\ \A j \in (k + 1) .. Len(list) : list[j] # v

\* list.index(v): the position of the first element equal to v
index(list, v) ==
    CHOOSE k \in 1 .. Len(list) :
        list[k] = v /\ \A j \in 1 .. (k - 1) : list[j] # v

\* the cache test that always takes the filling branch
cache_always_empty(cache) == TRUE

\* not cached_avgs
cache_empty(cache) == cache = <<>>

\* lines 93-99: the loop that computes and appends every tile average,
\* from tile k on
RECURSIVE scan_fill(_, _, _, _)
scan_fill(tls, target_avg, k, st) ==
    IF k > Len(tls) THEN st
    ELSE LET tile_avg == avg_rgb(tls[k])
             err == error(<<target_avg>>, <<tile_avg>>)
             better == improves(err, st.min_err)
         IN  scan_fill(tls, target_avg, k + 1,
                 [min_err |-> IF better THEN err ELSE st.min_err,
                  best_match |-> IF better THEN k ELSE st.best_match,
                  cached_avgs |-> Append(st.cached_avgs, tile_avg),
                  computed |-> Append(st.computed, 1),
                  exc |-> ""])

\* lines 101-105: the loop over the cached averages, from entry k on
RECURSIVE scan_cached(_, _, _, _)
scan_cached(tls, target_avg, k, st) ==
    IF k > Len(st.cached_avgs) \/ st.exc # "" THEN st
    ELSE LET avg == st.cached_avgs[k]
             err == error(<<target_avg>>, <<avg>>)
             better == improves(err, st.min_err)
             at == index(st.cached_avgs, avg)
         IN  scan_cached(tls, target_avg, k + 1,
                 [st EXCEPT
                    !.min_err = IF better THEN err ELSE @,
                    !.best_match = IF better /\ at <= Len(tls) THEN at ELSE @,
                    !.exc = IF better /\ at > Len(tls) THEN "IndexError" ELSE @])

\* lines 111-115: the loop over the tiles in 'diff' mode, from tile k on
RECURSIVE scan_diff(_, _, _, _)
scan_diff(tgt, tls, k, st) ==
    IF k > Len(tls) THEN st
    ELSE LET err == error(asarray(tgt), asarray(tls[k]))
             better == improves(err, st.min_err)
         IN  scan_diff(tgt, tls, k + 1,
                 [st EXCEPT
                    !.min_err = IF better THEN err ELSE @,
                    !.best_match = IF better THEN k ELSE @])

\* find_best_match(target, tiles, method) run on the cache `cache`:
\* best_match is the index of the returned tile (None is 0), cached_avgs the
\* cache it leaves, computed the tiles whose average it computed, exc how
\* it ended when it did not return
find_best_match(tgt, tls, mth, cache) ==
    LET st0 == [min_err |-> Inf, best_match |-> None, cached_avgs |-> cache,
                computed |-> <<>>, exc |-> ""]
    IN  IF mth = "avg"
        THEN IF cache_empty(cache)
             THEN scan_fill(tls, avg_rgb(tgt), 1, st0)
             ELSE scan_cached(tls, avg_rgb(tgt), 1, st0)
        ELSE IF mth = "diff"
        THEN scan_diff(tgt, tls, 1, st0)
        ELSE [st0 EXCEPT !.exc = "SystemExit"]

(***************************************************************************)
(* The functions on their own: each is called once on inputs drawn from    *)
(* bounded sets.                                                           *)
(***************************************************************************)
NoFx == [opened_target |-> FALSE, tiles_opened |-> 0, saved |-> FALSE, msg |-> ""]

\* the state of main before it has run
MainIdle ==
    /\ argv = <<>> /\ size = 0 /\ scale = 0 /\ method = ""
    /\ target = NoValue /\ n_files = 0
    /\ grid = <<>> /\ mosaic_tiles = <<>> /\ output = NoValue /\ fx = NoFx

MainVars == <<argv, size, scale, method, target, n_files, grid, mosaic_tiles, output, fx>>

MatchIdle == tiles = <<>> /\ cached_avgs = <<>> /\ avg_calls = <<>>

MatchVars == <<tiles, cached_avgs, avg_calls>>

SourceImages(n) == { Solid(w, h, c) : w \in 1 .. n, h \in 1 .. n, c \in 0 .. MaxPix }

\* get_target(image, tile_size, scale) on a decoded image
InitTarget ==
    /\ pc = "get_target"
    /\ args \in [image : SourceImages(MaxSrc),
                  tile_size : { <<t, t>> : t \in 1 .. MaxSize },
                  scale : 1 .. MaxScale]
    /\ ret = NoValue
    /\ MainIdle /\ MatchIdle

CallGetTarget ==
    /\ pc = "get_target"
    /\ ret' = get_target(args.image, args.tile_size, args.scale)
    /\ pc' = "get_target_done"
    /\ UNCHANGED <<args, MainVars, MatchVars>>

SpecTarget == InitTarget /\ [][CallGetTarget]_vars

\* process_tile(tile, tile_size)
InitTile ==
    /\ pc = "process_tile"
    /\ args \in [tile : SourceImages(MaxSrc),
                  tile_size : { <<t, t>> : t \in 1 .. MaxSize }]
    /\ ret = NoValue
    /\ MainIdle /\ MatchIdle

CallProcessTile ==
    /\ pc = "process_tile"
    /\ ret' = [box |-> process_tile_box(args.tile),
               tile |-> process_tile(args.tile, args.tile_size)]
    /\ pc' = "process_tile_done"
    /\ UNCHANGED <<args, MainVars, MatchVars>>

SpecTile == InitTile /\ [][CallProcessTile]_vars

\* gridify(image, tile_size)
InitGrid ==
    /\ pc = "gridify"
    /\ args \in [image : { Numbered(w, h) : w \in 1 .. MaxSrc, h \in 1 .. MaxSrc },
                  tile_size : (1 .. MaxSize) \X (1 .. MaxSize)]
    /\ ret = NoValue
    /\ MainIdle /\ MatchIdle

CallGridify ==
    /\ pc = "gridify"
    /\ ret' = gridify(args.image, args.tile_size)
    /\ pc' = "gridify_done"
    /\ UNCHANGED <<args, MainVars, MatchVars>>

SpecGrid == InitGrid /\ [][CallGridify]_vars

(***************************************************************************)
(* find_best_match called repeatedly in one process on a fixed tile        *)
(* collection; cached_avgs is the module-level list of line 10.            *)
(***************************************************************************)
RECURSIVE SeqsUpTo(_, _)
SeqsUpTo(S, n) ==
    IF n = 0 THEN { <<>> }
    ELSE LET shorter == SeqsUpTo(S, n - 1)
         IN  shorter \cup { Append(q, x) : q \in shorter, x \in S }

MatchBuffers == Buffers(MatchTileSize[1], MatchTileSize[2])

Methods == {"avg", "diff", "other"}

InitMatch ==
    /\ pc = "idle"
    /\ tiles \in SeqsUpTo(MatchBuffers, MaxTiles)
    /\ cached_avgs = <<>>
    /\ avg_calls = [k \in 1 .. Len(tiles) |-> 0]
    /\ args = NoValue
    /\ ret = NoValue
    /\ MainIdle

\* one call find_best_match(tgt, tiles, mth); avg_calls counts, per tile, the
\* evaluations of avg_rgb(tile)
CallFindBestMatch ==
    /\ pc = "idle"
    /\ \E tgt \in MatchBuffers, mth \in Methods :
         LET r == find_best_match(tgt, tiles, mth, cached_avgs)
         IN  /\ args' = [target |-> tgt, method |-> mth, warm |-> cached_avgs # <<>>]
             /\ ret' = r.best_match
             /\ cached_avgs' = r.cached_avgs
             /\ avg_calls' = [k \in 1 .. Len(tiles) |->
                                avg_calls[k] + (IF k <= Len(r.computed) THEN 1 ELSE 0)]
             /\ pc' = IF r.exc = "" THEN "idle" ELSE "exit"
    /\ UNCHANGED <<tiles, MainVars>>

SpecMatch == InitMatch /\ [][CallFindBestMatch]_vars

(***************************************************************************)
(* main: one run of the program.  The command line is drawn at the start,  *)
(* the content of a file when it is opened, the number of directory        *)
(* entries when the directory is listed.  Image files are solid-colour     *)
(* images.  fx records what the run has done to the outside: the target    *)
(* opened, the tile files opened, the output saved, the message of an      *)
(* abort.                                                                  *)
(***************************************************************************)
Numerals == <<"0", "1", "2", "3", "4", "5", "6", "7", "8", "9">>

is_int(str) == \E n \in 1 .. Len(Numerals) : Numerals[n] = str

\* int(str) for a str that int accepts
int(str) == (CHOOSE n \in 1 .. Len(Numerals) : Numerals[n] = str) - 1

SizeArgs == { Numerals[n + 1] : n \in 0 .. MaxSize } \cup {"x"}

ScaleArgs == { Numerals[n + 1] : n \in 0 .. MaxScale } \cup {"x"}

\* sys.argv: the program name alone, or with its six arguments
Argvs ==
    { <<"mosaic.py">> } \cup
    { <<"mosaic.py", "image", "tiles", "out", sz, sc, m>> :
        sz \in SizeArgs, sc \in ScaleArgs, m \in Methods }

NoFile == [missing |-> TRUE]

InitMain ==
    /\ pc = "main"
    /\ argv \in Argvs
    /\ size = 0 /\ scale = 0 /\ method = ""
    /\ target = NoValue /\ n_files = 0
    /\ tiles = <<>>
    /\ cached_avgs = <<>>
    /\ grid = <<>> /\ mosaic_tiles = <<>> /\ output = NoValue /\ fx = NoFx
    /\ args = NoValue /\ ret = NoValue /\ avg_calls = <<>>

NotMain == <<args, ret, avg_calls>>

\* lines 150-160
CheckArgc ==
    /\ pc = "main"
    /\ IF Len(argv) # 7
       THEN pc' = "exit" /\ fx' = [fx EXCEPT !.msg = "usage"]
       ELSE pc' = "parse" /\ fx' = fx
    /\ UNCHANGED <<argv, size, scale, method, target, n_files, tiles, cached_avgs,
                   grid, mosaic_tiles, output, NotMain>>

\* lines 162-170: int() raises ValueError on a string that is no integer
ParseArgs ==
    /\ pc = "parse"
    /\ IF is_int(argv[5]) /\ is_int(argv[6])
       THEN /\ size' = int(argv[5])
            /\ scale' = (IF int(argv[6]) < 1 THEN 1 ELSE int(argv[6]))
            /\ method' = argv[7]
            /\ pc' = "check_method"
            /\ fx' = fx
       ELSE /\ pc' = "raise"
            /\ fx' = [fx EXCEPT !.msg = "ValueError"]
            /\ UNCHANGED <<size, scale, method>>
    /\ UNCHANGED <<argv, target, n_files, tiles, cached_avgs,
                   grid, mosaic_tiles, output, NotMain>>

\* the method test with the check left out
any_method(mth) == TRUE

\* not (method != 'avg' and method != 'diff')
known_method(mth) == mth = "avg" \/ mth = "diff"

\* lines 171-173
CheckMethod ==
    /\ pc = "check_method"
    /\ IF known_method(method)
       THEN pc' = "get_target" /\ fx' = fx
       ELSE pc' = "exit" /\ fx' = [fx EXCEPT !.msg = "unknown method"]
    /\ UNCHANGED <<argv, size, scale, method, target, n_files, tiles, cached_avgs,
                   grid, mosaic_tiles, output, NotMain>>

\* line 174: Image.open raises on a missing file, w % tile_size[0] on a
\* tile size of 0
GetTarget ==
    /\ pc = "get_target"
    /\ \E file \in SourceImages(MaxDim) \cup {NoFile} :
         IF file = NoFile
         THEN /\ pc' = "raise"
              /\ fx' = [fx EXCEPT !.msg = "FileNotFoundError"]
              /\ target' = target
         ELSE IF size = 0
         THEN /\ pc' = "raise"
              /\ fx' = [fx EXCEPT !.opened_target = TRUE, !.msg = "ZeroDivisionError"]
              /\ target' = target
         ELSE /\ pc' = "check_size"
              /\ fx' = [fx EXCEPT !.opened_target = TRUE]
              /\ target' = get_target(file, <<size, size>>, scale)
    /\ UNCHANGED <<argv, size, scale, method, n_files, tiles, cached_avgs,
                   grid, mosaic_tiles, output, NotMain>>

\* the size test against the larger dimension
larger_than_both(sz, tgt) == sz > (IF tgt.w > tgt.h THEN tgt.w ELSE tgt.h)

\* size > min(target.size)
tiles_too_large(sz, tgt) == sz > Min(tgt.w, tgt.h)

\* lines 175-178
CheckSize ==
    /\ pc = "check_size"
    /\ IF tiles_too_large(size, target)
       THEN pc' = "exit" /\ fx' = [fx EXCEPT !.msg = "tiles larger"]
       ELSE pc' = "get_tiles" /\ fx' = fx
    /\ UNCHANGED <<argv, size, scale, method, target, n_files, tiles, cached_avgs,
                   grid, mosaic_tiles, output, NotMain>>

\* get_tiles, lines 48-51: the directory is listed
ListTiles ==
    /\ pc = "get_tiles"
    /\ \E n \in 0 .. MaxTiles : n_files' = n
    /\ tiles' = <<>>
    /\ pc' = "load_tile"
    /\ UNCHANGED <<argv, size, scale, method, target, cached_avgs,
                   grid, mosaic_tiles, output, fx, NotMain>>

\* get_tiles, lines 52-56: the next file is opened and processed;
\* Image.open raises on a file that is no image
LoadTile ==
    /\ pc = "load_tile"
    /\ Len(tiles) < n_files
    /\ \E file \in SourceImages(MaxDim) \cup {NoFile} :
         IF file = NoFile
         THEN /\ pc' = "raise"
              /\ fx' = [fx EXCEPT !.tiles_opened = @ + 1, !.msg = "UnidentifiedImageError"]
              /\ tiles' = tiles
         ELSE /\ pc' = pc
              /\ fx' = [fx EXCEPT !.tiles_opened = @ + 1]
              /\ tiles' = Append(tiles, process_tile(file, <<size, size>>))
    /\ UNCHANGED <<argv, size, scale, method, target, n_files, cached_avgs,
                   grid, mosaic_tiles, output, NotMain>>

\* get_tiles, lines 57-58, and mosaic, lines 124-127
Gridify ==
    /\ pc = "load_tile"
    /\ Len(tiles) = n_files
    /\ grid' = gridify(target, <<size, size>>)
    /\ mosaic_tiles' = <<>>
    /\ pc' = "match"
    /\ UNCHANGED <<argv, size, scale, method, target, n_files, tiles, cached_avgs,
                   output, fx, NotMain>>

\* lines 130-132: the cells of a row from cell j on
RECURSIVE match_row(_, _, _, _, _)
match_row(row, j, tls, mth, acc) ==
    IF j > Len(row) \/ acc.exc # "" THEN acc
    ELSE LET r == find_best_match(row[j], tls, mth, acc.cached_avgs)
         IN  match_row(row, j + 1, tls, mth,
                 [mosaic_row |-> IF r.exc = "" THEN Append(acc.mosaic_row, r.best_match)
                                 ELSE acc.mosaic_row,
                  cached_avgs |-> r.cached_avgs,
                  exc |-> r.exc])

\* mosaic, lines 128-134: one row of the grid is matched
MatchRow ==
    /\ pc = "match"
    /\ Len(mosaic_tiles) < Len(grid)
    /\ LET row == grid[Len(mosaic_tiles) + 1]
           r == match_row(row, 1, tiles, method,
                          [mosaic_row |-> <<>>, cached_avgs |-> cached_avgs, exc |-> ""])
       IN  /\ cached_avgs' = r.cached_avgs
           /\ IF r.exc = ""
              THEN /\ mosaic_tiles' = Append(mosaic_tiles, r.mosaic_row)
                   /\ pc' = pc
                   /\ fx' = fx
              ELSE /\ mosaic_tiles' = mosaic_tiles
                   /\ pc' = (IF r.exc = "SystemExit" THEN "exit" ELSE "raise")
                   /\ fx' = [fx EXCEPT !.msg =
                               IF r.exc = "SystemExit" THEN "unknown method in find_best_match"
                               ELSE r.exc]
    /\ UNCHANGED <<argv, size, scale, method, target, n_files, tiles,
                   grid, output, NotMain>>

\* mosaic, lines 135-137
MatchDone ==
    /\ pc = "match"
    /\ Len(mosaic_tiles) = Len(grid)
    /\ pc' = "composite"
    /\ UNCHANGED <<argv, size, scale, method, target, n_files, tiles, cached_avgs,
                   grid, mosaic_tiles, output, fx, NotMain>>

\* lines 139-142: the buffer of Image.new(mode, image.size) after every tile
\* of mosaic_tiles was pasted at (j * tile_w, i * tile_h)
pasted(tgt, tls, matches, tile_size) ==
    LET tile_w == tile_size[1]
        tile_h == tile_size[2]
    IN  [w |-> tgt.w, h |-> tgt.h,
         px |-> [p \in Coords(tgt.w, tgt.h) |->
                   LET i == p[2] \div tile_h + 1
                       j == p[1] \div tile_w + 1
                   IN  IF i <= Len(matches) /\ j <= Len(matches[i])
                       THEN tls[matches[i][j]].px[<<p[1] % tile_w, p[2] % tile_h>>]
                       ELSE 0]]

\* mosaic, lines 138-144: paste raises on a match that is None, and nothing
\* is saved then
Composite ==
    /\ pc = "composite"
    /\ IF \E i \in 1 .. Len(mosaic_tiles) :
             \E j \in 1 .. Len(mosaic_tiles[i]) : mosaic_tiles[i][j] = None
       THEN /\ output' = Solid(target.w, target.h, 0)
            /\ pc' = "raise"
            /\ fx' = [fx EXCEPT !.msg = "paste of None"]
       ELSE /\ output' = pasted(target, tiles, mosaic_tiles, <<size, size>>)
            /\ pc' = "done"
            /\ fx' = [fx EXCEPT !.saved = TRUE]
    /\ UNCHANGED <<argv, size, scale, method, target, n_files, tiles, cached_avgs,
                   grid, mosaic_tiles, NotMain>>

Next ==
    \/ CheckArgc \/ ParseArgs \/ CheckMethod \/ GetTarget \/ CheckSize
    \/ ListTiles \/ LoadTile \/ Gridify \/ MatchRow \/ MatchDone \/ Composite

Spec == InitMain /\ [][Next]_vars

(***************************************************************************)
(* Properties of find_best_match (under SpecMatch).                        *)
(***************************************************************************)
\* the dissimilarity of tile k to the cell of the last call, in its mode
Dissimilarity(k) ==
    IF args.method = "avg"
    THEN error(<<avg_rgb(args.target)>>, <<avg_rgb(tiles[k])>>)
    ELSE error(asarray(args.target), asarray(tiles[k]))

Returned == pc = "idle" /\ args # NoValue

\* C1: for a non-empty tile collection and both modes, find_best_match
\* returns the tile of lowest index among those of minimal dissimilarity to
\* the cell, on the call that fills the cache and on every later one.
BestMatchIsFirstMinimum ==
    (Returned /\ tiles # <<>>) =>
        /\ ret \in 1 .. Len(tiles)
        /\ \A k \in 1 .. Len(tiles) : Dissimilarity(ret) <= Dissimilarity(k)
        /\ \A k \in 1 .. (ret - 1) : Dissimilarity(ret) < Dissimilarity(k)

\* a call that read the cache, with two different tiles of the same average
\* that both achieve the minimum
BestMatchTieOnWarmCache ==
    /\ Returned /\ args.method = "avg" /\ args.warm
    /\ Len(tiles) = 2 /\ tiles[1] # tiles[2]
    /\ Dissimilarity(1) = Dissimilarity(2)
    /\ ret = 1

\* C2: in 'avg' mode a call that reads the populated cache selects the tile
\* the cache-filling branch selects for the same cell and tiles.
WarmCacheSelectsAsColdCache ==
    (Returned /\ args.method = "avg" /\ args.warm) =>
        ret = find_best_match(args.target, tiles, "avg", <<>>).best_match

\* a call that read the cache and selected the second of two tiles
WarmCacheCallSelectsLaterTile ==
    /\ Returned /\ args.method = "avg" /\ args.warm
    /\ Len(tiles) = 2 /\ ret = 2

\* C3: each tile's average is computed exactly once: from the first 'avg'
\* call on cached_avgs holds one entry per tile, in tile order, equal to the
\* tile's average, and no later call appends, changes or recomputes one.
CacheFilledOnce ==
    /\ \/ cached_avgs = <<>> /\ \A k \in 1 .. Len(tiles) : avg_calls[k] = 0
       \/ /\ cached_avgs = [k \in 1 .. Len(tiles) |-> avg_rgb(tiles[k])]
          /\ \A k \in 1 .. Len(tiles) : avg_calls[k] = 1
    /\ (Returned /\ args.method = "avg") =>
          /\ cached_avgs = [k \in 1 .. Len(tiles) |-> avg_rgb(tiles[k])]
          /\ \A k \in 1 .. Len(tiles) : avg_calls[k] = 1

\* an 'avg' call on an already populated cache of two tiles
CacheReadByLaterCall ==
    /\ Returned /\ args.method = "avg" /\ args.warm
    /\ Len(tiles) = 2 /\ Len(cached_avgs) = 2
    /\ avg_calls = <<1, 1>>

(***************************************************************************)
(* Properties of get_target, process_tile and gridify.                     *)
(***************************************************************************)
\* C4: for every source size, scale >= 1 and square tile size t >= 1 the
\* buffer get_target returns has a width and a height that are multiples
\* of t.
TargetIsMultipleOfTile ==
    pc = "get_target_done" =>
        /\ ret.w % args.tile_size[1] = 0
        /\ ret.h % args.tile_size[1] = 0

\* C9: the crop box of process_tile is a square of side min(w, h) centred
\* in the source image and inside it.
CropBoxIsCentredSquare ==
    pc = "process_tile_done" =>
        LET w == args.tile.w
            h == args.tile.h
            m == Min(w, h)
            box == ret.box
        IN  /\ box[3] - box[1] = m
            /\ box[4] - box[2] = m
            /\ 0 <= box[1] /\ box[3] <= w
            /\ 0 <= box[2] /\ box[4] <= h

\* the pixels of a cell of the grid
CellPixels(cell) == { cell.px[p] : p \in DOMAIN cell.px }

\* C8: gridify returns floor(H/th) rows of floor(W/tw) cells; cell (i, j) is
\* exactly the region [j*tw, (j+1)*tw) x [i*th, (i+1)*th) of the buffer, so
\* the cells are tw x th, lie inside the buffer, do not overlap and cover
\* exactly [0, cols*tw) x [0, rows*th).
GridifyPartitions ==
    pc = "gridify_done" =>
        LET image == args.image
            tw == args.tile_size[1]
            th == args.tile_size[2]
            rows == image.h \div th
            cols == image.w \div tw
            Cells == { <<i, j>> : i \in 1 .. rows, j \in 1 .. cols }
        IN  /\ Len(ret) = rows
            /\ \A i \in 1 .. rows : Len(ret[i]) = cols
            /\ \A c \in Cells :
                 LET cell == ret[c[1]][c[2]]
                 IN  /\ cell.w = tw /\ cell.h = th
                     /\ DOMAIN cell.px = Coords(tw, th)
                     /\ \A p \in Coords(tw, th) :
                          LET q == <<(c[2] - 1) * tw + p[1], (c[1] - 1) * th + p[2]>>
                          IN  q \in Coords(image.w, image.h) /\ cell.px[p] = image.px[q]
            /\ \A c \in Cells, d \in Cells :
                 c # d => CellPixels(ret[c[1]][c[2]]) \cap CellPixels(ret[d[1]][d[2]]) = {}
            /\ UNION { CellPixels(ret[c[1]][c[2]]) : c \in Cells }
                 = { image.px[q] : q \in Coords(cols * tw, rows * th) }

\* a grid of at least two rows of non-square cells that
\* leaves a remainder strip on the right and at the bottom
GridWithRemainder ==
    /\ pc = "gridify_done"
    /\ args.tile_size[1] # args.tile_size[2]
    /\ Len(ret) >= 2 /\ Len(ret[1]) >= 1
    /\ args.image.w % args.tile_size[1] # 0
    /\ args.image.h % args.tile_size[2] # 0

(***************************************************************************)
(* Properties of main (under Spec).                                        *)
(***************************************************************************)
Ended == pc \in {"exit", "raise", "done"}

InTileLoadingOrLater == pc \in {"get_tiles", "load_tile", "match", "composite", "done"}

NothingLoadedOrWritten ==
    /\ fx.tiles_opened = 0 /\ tiles = <<>>
    /\ mosaic_tiles = <<>>
    /\ output = NoValue /\ ~fx.saved

\* C5: the output buffer allocated by mosaic is cols * tileWidth wide and
\* rows * tileHeight high, rows and cols being the grid dimensions gridify
\* returns for the prepared target.
OutputIsGridTimesTile ==
    pc = "done" =>
        /\ output.w = (target.w \div size) * size
        /\ output.h = (target.h \div size) * size
        /\ Len(grid) = target.h \div size
        /\ \A i \in 1 .. Len(grid) : Len(grid[i]) = target.w \div size

\* C6: when the tile size exceeds the smaller dimension of the prepared
\* target the run aborts after the target is prepared and before any tile
\* file is read, any matching and any output; tile loading starts only
\* when tile size <= min(target width, target height).
TooLargeTilesAbortBeforeLoading ==
    /\ (target # NoValue /\ size > Min(target.w, target.h)) =>
          /\ pc \in {"check_size", "exit"}
          /\ pc = "exit" => fx.msg = "tiles larger"
          /\ fx.opened_target
          /\ NothingLoadedOrWritten
    /\ (InTileLoadingOrLater \/ fx.tiles_opened > 0) =>
          /\ target # NoValue
          /\ size <= Min(target.w, target.h)

\* a run aborted by the size check, on a target with a dimension the tile
\* would have fitted
AbortedOnTooLargeTiles ==
    /\ pc = "exit" /\ fx.msg = "tiles larger"
    /\ target # NoValue /\ target.w < size /\ size <= target.h

UnknownMethodGiven == Len(argv) = 7 /\ argv[7] \notin {"avg", "diff"}

UnknownMethodDoesNothing ==
    /\ pc \in {"main", "parse", "check_method", "exit", "raise"}
    /\ ~fx.opened_target /\ target = NoValue
    /\ NothingLoadedOrWritten

\* C7 as stated: a run with 6 arguments and a method that is neither 'avg'
\* nor 'diff' aborts with the unknown-method failure before the target is
\* opened, any tile file is read or any output is written.
UnknownMethodAbortsWithUnknownMethod ==
    UnknownMethodGiven =>
        /\ UnknownMethodDoesNothing
        /\ Ended => (pc = "exit" /\ fx.msg = "unknown method")

\* C7 amended: such a run aborts before the target is opened, any tile file
\* is read or any output is written, and never reaches find_best_match; it
\* aborts with the unknown-method failure when the tile size and the scale
\* are integers, and with the ValueError of int() otherwise.
UnknownMethodAbortsBeforeTarget ==
    UnknownMethodGiven =>
        /\ UnknownMethodDoesNothing
        /\ Ended =>
             IF is_int(argv[5]) /\ is_int(argv[6])
             THEN pc = "exit" /\ fx.msg = "unknown method"
             ELSE pc = "raise" /\ fx.msg = "ValueError"

\* a run aborted by the method check
AbortedOnUnknownMethod ==
    /\ UnknownMethodGiven
    /\ pc = "exit" /\ fx.msg = "unknown method"

\* C10: in a run that reaches compositing every grid cell has been assigned
\* a match that is a member of the loaded tile collection, never None.
EveryCellMatchedToLoadedTile ==
    pc = "composite" =>
        /\ Len(mosaic_tiles) = Len(grid)
        /\ \A i \in 1 .. Len(grid) :
             /\ Len(mosaic_tiles[i]) = Len(grid[i])
             /\ \A j \in 1 .. Len(grid[i]) : mosaic_tiles[i][j] \in 1 .. Len(tiles)

====
